---- MODULE Spec2Model ----
(***************************************************************************)
(* Model of the WeChat-Work scheduled reminder (main.go and its earlier    *)
(* variant).  Strings are sequences of one-character strings, so that the  *)
(* parsing and formatting done by the program are computed character by    *)
(* character.                                                              *)
(***************************************************************************)
EXTENDS Integers, Sequences, FiniteSets, TLC

VARIABLES pc, testMode, variant, cfg, entered, ticker, tickPending, now,
          cycles, consumed, qualifying, sinkCalls, inFlight, request,
          attempts, resp, outcome, caller

vars == <<pc, testMode, variant, cfg, entered, ticker, tickPending, now,
          cycles, consumed, qualifying, sinkCalls, inFlight, request,
          attempts, resp, outcome, caller>>

\* ------------------------------------------------------------------ bounds
\* Number of timer ticks the polling loop consumes in the model.
MaxTicks == 2
\* Number of lines the user may type at one prompt (days or times).
MaxPromptLines == 2

\* ------------------------------------------------------- program constants
MaxWeekday == 6
StatusOK == 200

None == "none"

\* ----------------------------------------------------------------- strings
Digits == <<"0", "1", "2", "3", "4", "5", "6", "7", "8", "9">>

DigitChar(n) == Digits[n + 1]

DigitVal(c) == CHOOSE n \in 0..9 : Digits[n + 1] = c

Range(s) == {s[i] : i \in 1..Len(s)}

\* isDigit(s, i) of the time package, i counted from 0.
isDigit(s, i) == i < Len(s) /\ s[i + 1] \in Range(Digits)

Drop(s, n) == SubSeq(s, n + 1, Len(s))

\* The white space strings.TrimSpace removes, that of unicode.IsSpace (the
\* White_Space property): tab, line feed, vertical tab, form feed, carriage
\* return, space, U+0085, U+00A0, U+1680, U+2000 to U+200A, U+2028, U+2029,
\* U+202F, U+205F and U+3000.  A character that has no escape in a string
\* here is written by its name.
WhiteSpace ==
    {"\t", "\n", "VT", "\f", "\r", " ", "U+0085", "U+00A0", "U+1680",
     "U+2000", "U+2001", "U+2002", "U+2003", "U+2004", "U+2005", "U+2006",
     "U+2007", "U+2008", "U+2009", "U+200A", "U+2028", "U+2029", "U+202F",
     "U+205F", "U+3000"}

\* strings.TrimSpace
RECURSIVE TrimLeft(_)
TrimLeft(s) == IF s # <<>> /\ Head(s) \in WhiteSpace THEN TrimLeft(Tail(s)) ELSE s

RECURSIVE TrimRight(_)
TrimRight(s) ==
    IF s # <<>> /\ s[Len(s)] \in WhiteSpace THEN TrimRight(SubSeq(s, 1, Len(s) - 1)) ELSE s

TrimSpace(s) == TrimRight(TrimLeft(s))

\* strings.Split(s, ","): never empty, one more part than there are commas.
RECURSIVE SplitFrom(_, _)
SplitFrom(s, part) ==
    IF s = <<>> THEN <<part>>
    ELSE IF Head(s) = "," THEN <<part>> \o SplitFrom(Tail(s), <<>>)
    ELSE SplitFrom(Tail(s), Append(part, Head(s)))

Split(s) == SplitFrom(s, <<>>)

\* strconv.Atoi on short inputs: optional sign, then one or more digits.
RECURSIVE DigitsValue(_, _)
DigitsValue(s, acc) ==
    IF s = <<>> THEN acc ELSE DigitsValue(Tail(s), 10 * acc + DigitVal(Head(s)))

Atoi(s) ==
    LET signed == s # <<>> /\ Head(s) \in {"+", "-"}
        body == IF signed THEN Tail(s) ELSE s
        good == body # <<>> /\ \A i \in 1..Len(body) : body[i] \in Range(Digits)
    IN  IF ~good THEN [ok |-> FALSE, val |-> 0]
        ELSE [ok |-> TRUE,
              val |-> IF signed /\ Head(s) = "-" THEN 0 - DigitsValue(body, 0)
                      ELSE DigitsValue(body, 0)]

\* ------------------------------------------------------------- time package
\* getnum(s, fixed): one or two leading digits; two are required when fixed.
getnum(s, fixed) ==
    IF ~isDigit(s, 0) THEN [ok |-> FALSE, n |-> 0, rest |-> s]
    ELSE IF ~isDigit(s, 1)
         THEN IF fixed THEN [ok |-> FALSE, n |-> 0, rest |-> s]
              ELSE [ok |-> TRUE, n |-> DigitVal(s[1]), rest |-> Drop(s, 1)]
         ELSE [ok |-> TRUE, n |-> 10 * DigitVal(s[1]) + DigitVal(s[2]),
               rest |-> Drop(s, 2)]

\* time.Parse("15:04", value) succeeds: hour by getnum(value, false), a
\* colon, minute by getnum(value, true), nothing left, both in range.
timeParseOK(value) ==
    LET h == getnum(value, FALSE)
    IN  /\ h.ok
        /\ h.n < 24
        /\ h.rest # <<>> /\ Head(h.rest) = ":"
        /\ LET m == getnum(Tail(h.rest), TRUE)
           IN  m.ok /\ m.n < 60 /\ m.rest = <<>>

\* now.Format("15:04"): two-digit hour, colon, two-digit minute.
Format(hour, minute) ==
    <<DigitChar(hour \div 10), DigitChar(hour % 10), ":",
      DigitChar(minute \div 10), DigitChar(minute % 10)>>

\* ------------------------------------------------------------ configuration
\* Config: the four fields of config.txt.
Config(webhook, message, days, times) ==
    [Webhook |-> webhook, Message |-> message, SendDays |-> days, SendTimes |-> times]

NoCfg == Config(<<>>, <<>>, <<>>, <<>>)

\* for _, d := range cfg.SendDays { if d < 0 || d > 6 { valid = false } }
daysValid(days) == \A i \in 1..Len(days) : ~(days[i] < 0 \/ days[i] > MaxWeekday)

\* for _, t := range cfg.SendTimes { if time.Parse("15:04", t) fails { valid = false } }
timesValid(times) == \A i \in 1..Len(times) : timeParseOK(times[i])

\* The checks both loaders make on a decoded file.
validConfig(c) ==
    /\ c.Webhook # <<>> /\ c.Message # <<>>
    /\ Len(c.SendDays) > 0 /\ Len(c.SendTimes) > 0
    /\ daysValid(c.SendDays)
    /\ timesValid(c.SendTimes)

\* ------------------------------------------------------- interactive prompt
\* The value of a prompt stage: ok is FALSE when the stage loops for ever
\* (standard input is exhausted while the loop still asks for a line).
Stage(ok, val, rest) == [ok |-> ok, val |-> val, rest |-> rest]

\* Webhook and message: read and trim lines until one is not empty.
RECURSIVE readNonEmpty(_)
readNonEmpty(in) ==
    IF in = <<>> THEN Stage(FALSE, <<>>, <<>>)
    ELSE LET s == TrimSpace(Head(in))
         IN  IF s = <<>> THEN readNonEmpty(Tail(in)) ELSE Stage(TRUE, s, Tail(in))

\* The inner loop over the parts of one line of days: the parts before the
\* first invalid one are appended, then the loop breaks with valid = false.
RECURSIVE parseDayParts(_, _)
parseDayParts(parts, sendDays) ==
    IF parts = <<>> THEN [list |-> sendDays, valid |-> TRUE]
    ELSE LET part == TrimSpace(Head(parts))
             d == Atoi(part)
         IN  IF part = <<>> THEN parseDayParts(Tail(parts), sendDays)
             ELSE IF ~d.ok \/ d.val < 0 \/ d.val > MaxWeekday
                  THEN [list |-> sendDays, valid |-> FALSE]
                  ELSE parseDayParts(Tail(parts), Append(sendDays, d.val))

\* for len(sendDays) == 0 { ... }: daysStr is the trimmed line at hand,
\* sendDays the list left by the previous pass, in the lines not yet read.
\* A read at end of input yields the empty line.
RECURSIVE daysLoop(_, _, _)
daysLoop(daysStr, sendDays, in) ==
    IF Len(sendDays) # 0 THEN Stage(TRUE, sendDays, in)
    ELSE IF daysStr = <<>>
         THEN IF in = <<>> THEN Stage(FALSE, <<>>, <<>>)
              ELSE daysLoop(TrimSpace(Head(in)), sendDays, Tail(in))
         ELSE LET r == parseDayParts(Split(daysStr), <<>>)
              IN  IF ~r.valid \/ Len(r.list) = 0
                  THEN IF in = <<>> THEN daysLoop(<<>>, r.list, <<>>)
                       ELSE daysLoop(TrimSpace(Head(in)), r.list, Tail(in))
                  ELSE daysLoop(daysStr, r.list, in)

RECURSIVE parseTimeParts(_, _)
parseTimeParts(parts, sendTimes) ==
    IF parts = <<>> THEN [list |-> sendTimes, valid |-> TRUE]
    ELSE LET part == TrimSpace(Head(parts))
         IN  IF part = <<>> THEN parseTimeParts(Tail(parts), sendTimes)
             ELSE IF ~timeParseOK(part)
                  THEN [list |-> sendTimes, valid |-> FALSE]
                  ELSE parseTimeParts(Tail(parts), Append(sendTimes, part))

RECURSIVE timesLoop(_, _, _)
timesLoop(timesStr, sendTimes, in) ==
    IF Len(sendTimes) # 0 THEN Stage(TRUE, sendTimes, in)
    ELSE IF timesStr = <<>>
         THEN IF in = <<>> THEN Stage(FALSE, <<>>, <<>>)
              ELSE timesLoop(TrimSpace(Head(in)), sendTimes, Tail(in))
         ELSE LET r == parseTimeParts(Split(timesStr), <<>>)
              IN  IF ~r.valid \/ Len(r.list) = 0
                  THEN IF in = <<>> THEN timesLoop(<<>>, r.list, <<>>)
                       ELSE timesLoop(TrimSpace(Head(in)), r.list, Tail(in))
                  ELSE timesLoop(timesStr, r.list, in)

\* reader.ReadString('\n') followed by TrimSpace; the empty line at end of input.
ReadTrimmed(in) ==
    IF in = <<>> THEN [line |-> <<>>, rest |-> <<>>]
    ELSE [line |-> TrimSpace(Head(in)), rest |-> Tail(in)]

Consumed(before, after) == SubSeq(before, 1, Len(before) - Len(after))

\* promptConfigFromUser on the lines of standard input.  daysRead and
\* timesRead are the lines the days stage and the times stage have read.
promptConfigFromUser(in) ==
    LET w == readNonEmpty(in)
        m == readNonEmpty(w.rest)
        dl == ReadTrimmed(m.rest)
        d == daysLoop(dl.line, <<>>, dl.rest)
        tl == ReadTrimmed(d.rest)
        t == timesLoop(tl.line, <<>>, tl.rest)
    IN  IF ~w.ok \/ ~m.ok \/ ~d.ok \/ ~t.ok
        THEN [ok |-> FALSE, cfg |-> NoCfg, daysRead |-> <<>>, timesRead |-> <<>>]
        ELSE [ok |-> TRUE,
              cfg |-> Config(w.val, m.val, d.val, t.val),
              daysRead |-> Consumed(m.rest, d.rest),
              timesRead |-> Consumed(d.rest, t.rest)]

\* ----------------------------------------------------------- checkAndSend
\* for _, d := range cfg.SendDays { if d == weekday { dayMatch = true; break } }
RECURSIVE dayMatch(_, _)
dayMatch(days, weekday) ==
    IF days = <<>> THEN FALSE
    ELSE IF Head(days) = weekday THEN TRUE
    ELSE dayMatch(Tail(days), weekday)

\* for _, t := range cfg.SendTimes { if t == timeStr { timeMatch = true; break } }
RECURSIVE timeMatch(_, _)
timeMatch(times, timeStr) ==
    IF times = <<>> THEN FALSE
    ELSE IF Head(times) = timeStr THEN TRUE
    ELSE timeMatch(Tail(times), timeStr)

\* Slip: the send sits inside the loop over the times, without the break.
invocationsPerEntry(c, weekday, timeStr) ==
    IF ~dayMatch(c.SendDays, weekday) THEN 0
    ELSE Cardinality({i \in 1..Len(c.SendTimes) : c.SendTimes[i] = timeStr})

\* Slip: a guard that skips a tick of the minute that fired last.
invocationsOncePerMinute(c, weekday, timeStr) ==
    IF ~dayMatch(c.SendDays, weekday) \/ ~timeMatch(c.SendTimes, timeStr) THEN 0
    ELSE IF sinkCalls > 0 /\ now.weekday = weekday /\ Format(now.hour, now.minute) = timeStr
         THEN 0
    ELSE 1

\* The number of calls of sendToWechat one checkAndSend makes.
invocations(c, weekday, timeStr) ==
    IF ~dayMatch(c.SendDays, weekday) THEN 0
    ELSE IF ~timeMatch(c.SendTimes, timeStr) THEN 0
    ELSE 1

\* ----------------------------------------------------------- sendToWechat
\* A JSON value of a response body.
JNum(n) == [type |-> "number", num |-> n, str |-> ""]
JStr(x) == [type |-> "string", num |-> 0, str |-> x]

\* A response body: its raw bytes and the JSON document they hold.
Body(raw, kind, fields) == [raw |-> raw, kind |-> kind, fields |-> fields]

\* json.Unmarshal(result, &res) into a nil map: the members of a JSON
\* object; the map stays nil for anything else (the error is dropped).
jsonUnmarshal(body) == IF body.kind = "object" THEN body.fields ELSE <<>>

\* Slip: the ok of the type assertion is dropped, so a missing errcode reads 0.
errcodeFloatZeroValue(res) ==
    IF "errcode" \in DOMAIN res /\ res["errcode"].type = "number"
    THEN [ok |-> TRUE, code |-> res["errcode"].num]
    ELSE [ok |-> TRUE, code |-> 0]

\* code, ok := res["errcode"].(float64)
errcodeFloat(res) ==
    IF "errcode" \in DOMAIN res /\ res["errcode"].type = "number"
    THEN [ok |-> TRUE, code |-> res["errcode"].num]
    ELSE [ok |-> FALSE, code |-> 0]

NoBody == Body("", "none", <<>>)
Response(err, status, body) == [err |-> err, status |-> status, body |-> body]
NoResp == Response(FALSE, 0, NoBody)
Outcome(kind, status, raw) == [kind |-> kind, status |-> status, raw |-> raw]
NoOutcome == Outcome(None, 0, "")

\* Slip: the body is looked at before the status code.
classifyBodyFirst(r) ==
    IF r.err THEN Outcome("NetworkError", 0, "")
    ELSE LET c == errcodeFloat(jsonUnmarshal(r.body))
         IN  IF c.ok /\ c.code = 0 THEN Outcome("Success", 0, "")
             ELSE IF r.status = StatusOK THEN Outcome("ApplicationError", 0, r.body.raw)
             ELSE Outcome("HttpError", r.status, r.body.raw)

\* What sendToWechat reports for the result of client.Post.
classify(r) ==
    IF r.err THEN Outcome("NetworkError", 0, "")
    ELSE IF r.status = StatusOK
         THEN LET c == errcodeFloat(jsonUnmarshal(r.body))
              IN  IF c.ok /\ c.code = 0 THEN Outcome("Success", 0, "")
                  ELSE Outcome("ApplicationError", 0, r.body.raw)
         ELSE Outcome("HttpError", r.status, r.body.raw)

Request(target, message) == [target |-> target, message |-> message]
NoRequest == Request(<<>>, <<>>)

\* Slip: a transport failure is reported with log.Fatalf.
afterSendFatalOnError(from, result) ==
    IF result.kind = "NetworkError" THEN "fatal"
    ELSE IF from = "testSend" THEN "exit" ELSE "wait"

\* Slip: main lacks the return after testSend and goes on to the scheduler.
afterSendFallThrough(from, result) == IF from = "testSend" THEN "loaded" ELSE "wait"

\* Where control goes when sendToWechat returns to its caller.
afterSend(from, result) == IF from = "testSend" THEN "exit" ELSE "wait"

\* ------------------------------------------------------------------ inputs
W == <<"h">>
M == <<"m">>
T0900 == <<"0", "9", ":", "0", "0">>
T1400 == <<"1", "4", ":", "0", "0">>
T900 == <<"9", ":", "0", "0">>
T090 == <<"0", "9", ":", "0">>
T2400 == <<"2", "4", ":", "0", "0">>

FileDays == {<<>>, <<1>>, <<1, 1>>, <<1, 2>>, <<7>>, <<1, -1>>}
FileTimes == {<<>>, <<T0900>>, <<T0900, T0900>>, <<T0900, T1400>>, <<T900>>,
              <<T0900, T2400>>, <<T090>>}

\* config.txt: absent, not decodable, or a decoded Config.
File(kind, c) == [kind |-> kind, cfg |-> c]
Files ==
    {File("missing", NoCfg), File("malformed", NoCfg)} \cup
    {File("json", Config(w, m, d, t)) :
        w \in {<<>>, W}, m \in {<<>>, M}, d \in FileDays, t \in FileTimes}

\* The line endings reader.ReadString('\n') returns with a line: CR LF
\* from a Windows console, LF alone from a pipe.
CRLF == <<"\r", "\n">>
LF == <<"\n">>

\* Lines typed at the days prompt and at the times prompt, before their ending.
DayLines == {<<"1">>, <<"3">>, <<"1", ",", "x">>, <<"x", ",", "1">>,
             <<" ", "2", ",", "U+3000">>, <<"7">>, <<>>, <<"1", ",", "\t", "1">>}
TimeLines == {T0900, T900, T0900 \o <<",", "x">>, <<"x", ",">> \o T0900,
              T2400, <<>>, T0900 \o <<",", "\t">> \o T0900}

\* Every line of a script followed by the ending eol.
Ended(lines, eol) == [i \in 1..Len(lines) |-> lines[i] \o eol]

RECURSIVE SeqsUpTo(_, _)
SeqsUpTo(S, n) ==
    IF n = 0 THEN {<<>>}
    ELSE LET shorter == SeqsUpTo(S, n - 1)
         IN  shorter \cup {Append(q, x) : q \in shorter, x \in S}

PromptScripts ==
    {Ended(<<W, M>> \o d \o t, CRLF) :
        d \in SeqsUpTo(DayLines, MaxPromptLines) \ {<<>>},
        t \in SeqsUpTo(TimeLines, MaxPromptLines) \ {<<>>}}

MainScripts ==
    {Ended(<<W, M, <<"1">>, T0900>>, CRLF),
     Ended(<<W, M, <<"1", ",", "x">>, <<"3">>, T900>>, LF),
     Ended(<<<<>>, <<"\t">> \o W, M, <<"1", ",", "\t", "1">>,
             T0900 \o <<",">> \o T0900>>, CRLF)}

ClockWeekdays == {0, 1, 2}
ClockTimes == {<<9, 0>>, <<9, 1>>, <<14, 0>>}
NoTime == [weekday |-> -1, hour |-> 0, minute |-> 0]

Bodies ==
    {Body("{errcode:0}", "object", [errcode |-> JNum(0)]),
     Body("{errcode:93000,errmsg}", "object",
          [errcode |-> JNum(93000), errmsg |-> JStr("invalid webhook")]),
     Body("{errcode:'0'}", "object", [errcode |-> JStr("0")]),
     Body("{errmsg:ok}", "object", [errmsg |-> JStr("ok")]),
     Body("<html>", "invalid", <<>>),
     Body("null", "null", <<>>)}

Responses ==
    {Response(TRUE, 0, NoBody)} \cup
    {Response(FALSE, st, b) : st \in {StatusOK, 201, 500}, b \in Bodies}

NoEntered == [daysRead |-> <<>>, timesRead |-> <<>>]

\* ------------------------------------------------------------ state machine
\* pc: "start" (flags parsed), "loaded" (configuration returned to main),
\* "wait" (blocked on ticker.C), "sending" (inside client.Post), "exit"
\* (main returned), "fatal" (log.Fatal), "prompting" (the prompt loops for
\* ever on exhausted input).
Init ==
    /\ pc = "start"
    /\ testMode \in BOOLEAN
    /\ variant \in {"prompt", "strict"}
    /\ cfg = NoCfg
    /\ entered = NoEntered
    /\ ticker = FALSE
    /\ tickPending = 0
    /\ now = NoTime
    /\ cycles = 0
    /\ consumed = 0
    /\ qualifying = 0
    /\ sinkCalls = 0
    /\ inFlight = 0
    /\ request = NoRequest
    /\ attempts = 0
    /\ resp = NoResp
    /\ outcome = NoOutcome
    /\ caller = None

\* n calls of sendToWechat(c.Webhook, c.Message) made by `from`.
CallSink(from, c, n) ==
    /\ pc' = "sending"
    /\ caller' = from
    /\ sinkCalls' = sinkCalls + n
    /\ inFlight' = inFlight + n
    /\ request' = Request(c.Webhook, c.Message)

\* The loader has returned c: testSend sends at once, main goes on.
Loaded(c, e) ==
    /\ cfg' = c
    /\ entered' = e
    /\ IF testMode
       THEN CallSink("testSend", c, 1)
       ELSE /\ pc' = "loaded"
            /\ UNCHANGED <<caller, sinkCalls, inFlight, request>>
    /\ UNCHANGED <<testMode, variant, ticker, tickPending, now, cycles, consumed,
                   qualifying, attempts, resp, outcome>>

Halt(at) ==
    /\ pc' = at
    /\ UNCHANGED <<testMode, variant, cfg, entered, ticker, tickPending, now,
                   cycles, consumed, qualifying, sinkCalls, inFlight, request,
                   attempts, resp, outcome, caller>>

fileValid(f) == f.kind = "json" /\ validConfig(f.cfg)

\* The files a loader does not return: absent, not decodable, or failing a check.
InvalidFiles == {f \in Files : ~fileValid(f)}

\* loadOrPromptConfig ("prompt") and loadConfig ("strict"), called by main
\* or by testSend: a valid file is returned as it is; otherwise the strict
\* loader ends the process and the other one prompts and saves.
LoadConfig(scripts) ==
    /\ pc = "start"
    /\ \/ \E f \in Files : fileValid(f) /\ Loaded(f.cfg, NoEntered)
       \/ /\ InvalidFiles # {}
          /\ variant = "strict"
          /\ Halt("fatal")
       \/ /\ InvalidFiles # {}
          /\ variant = "prompt"
          /\ \E in \in scripts, saved \in BOOLEAN :
                LET p == promptConfigFromUser(in)
                IN  IF ~p.ok THEN Halt("prompting")
                    ELSE IF ~saved THEN Halt("fatal")
                    ELSE Loaded(p.cfg, [daysRead |-> p.daysRead,
                                        timesRead |-> p.timesRead])

\* One checkAndSend(cfg): read the clock, match, maybe call the sink.
CheckAndSend ==
    \E w \in ClockWeekdays, t \in ClockTimes :
        LET timeStr == Format(t[1], t[2])
            n == invocations(cfg, w, timeStr)
        IN  /\ now' = [weekday |-> w, hour |-> t[1], minute |-> t[2]]
            /\ cycles' = cycles + 1
            /\ qualifying' = qualifying +
                   (IF w \in Range(cfg.SendDays) /\ timeStr \in Range(cfg.SendTimes)
                    THEN 1 ELSE 0)
            /\ IF n > 0 THEN CallSink("checkAndSend", cfg, n)
               ELSE /\ pc' = "wait"
                    /\ UNCHANGED <<caller, sinkCalls, inFlight, request>>

\* Slip: main enters the loop without the immediate checkAndSend.
FirstCycleSkipped ==
    /\ pc = "loaded"
    /\ ticker' = TRUE
    /\ pc' = "wait"
    /\ UNCHANGED <<testMode, variant, cfg, entered, tickPending, now, cycles,
                   consumed, qualifying, sinkCalls, inFlight, request, attempts,
                   resp, outcome, caller>>

\* main after the loader: time.NewTicker, then checkAndSend at once.
FirstCycle ==
    /\ pc = "loaded"
    /\ ticker' = TRUE
    /\ CheckAndSend
    /\ UNCHANGED <<testMode, variant, cfg, entered, tickPending, consumed,
                   attempts, resp, outcome>>

\* The runtime timer: ticker.C holds one tick; a tick that finds it full is dropped.
TimerFire ==
    /\ ticker
    /\ tickPending = 0
    /\ tickPending' = 1
    /\ UNCHANGED <<pc, testMode, variant, cfg, entered, ticker, now, cycles,
                   consumed, qualifying, sinkCalls, inFlight, request, attempts,
                   resp, outcome, caller>>

\* Slip: checkAndSend runs in a goroutine, so the loop receives while a send is out.
canReceiveTickWhileSending == pc \in {"wait", "sending"} /\ tickPending = 1

\* for range ticker.C: the loop receives only between two checkAndSend calls.
canReceiveTick == pc = "wait" /\ tickPending = 1

TickCycle ==
    /\ canReceiveTick
    /\ consumed < MaxTicks
    /\ tickPending' = 0
    /\ consumed' = consumed + 1
    /\ CheckAndSend
    /\ UNCHANGED <<testMode, variant, cfg, entered, ticker, attempts, resp, outcome>>

\* client.Post returns and sendToWechat reports: one attempt per call.
SendReturn ==
    /\ pc = "sending"
    /\ \E r \in Responses :
          /\ resp' = r
          /\ outcome' = classify(r)
          /\ pc' = afterSend(caller, classify(r))
    /\ attempts' = attempts + 1
    /\ inFlight' = inFlight - 1
    /\ UNCHANGED <<testMode, variant, cfg, entered, ticker, tickPending, now,
                   cycles, consumed, qualifying, sinkCalls, request, caller>>

Next ==
    \/ LoadConfig(MainScripts)
    \/ FirstCycle
    \/ TimerFire
    \/ TickCycle
    \/ SendReturn

Spec == Init /\ [][Next]_vars

\* The loader alone, on every script of the prompt.
InitPrompt == Init /\ variant = "prompt"

NextPrompt == LoadConfig(PromptScripts)

SpecPrompt == InitPrompt /\ [][NextPrompt]_vars

\* ------------------------------------------------------------------ claims
\* The match predicate of the specification on the tick last observed.
TickStr == Format(now.hour, now.minute)

TickQualifies == now.weekday \in Range(cfg.SendDays) /\ TickStr \in Range(cfg.SendTimes)

\* C1: one checkAndSend cycle calls the sink exactly once, with the loaded
\* target and message, when the weekday is among the days and hh:mm among
\* the times, and not at all otherwise, repeated entries included.
C1_CycleFiresIffMatch ==
    [][cycles' = cycles + 1 =>
        LET str == Format(now'.hour, now'.minute)
            hit == now'.weekday \in Range(cfg.SendDays) /\ str \in Range(cfg.SendTimes)
        IN  /\ cfg' = cfg
            /\ sinkCalls' = sinkCalls + (IF hit THEN 1 ELSE 0)
            /\ hit => request' = Request(cfg.Webhook, cfg.Message)]_vars

C1_Witness ==
    /\ cycles = 1 /\ sinkCalls = 1 /\ now.weekday = 1 /\ TickStr = T0900
    /\ cfg.SendDays = <<1, 1>> /\ cfg.SendTimes = <<T0900, T0900>>
    /\ request = Request(W, M)

\* C2: in scheduler mode the first cycle runs when the ticker is created,
\* before any tick is consumed, and every consumed tick adds one cycle.
C2_ImmediateThenPerTick ==
    /\ ticker => cycles = consumed + 1
    /\ ~ticker => cycles = 0 /\ consumed = 0
    /\ (~testMode /\ pc \in {"wait", "sending"}) => ticker

C2_Witness ==
    ~testMode /\ consumed = 0 /\ tickPending = 0 /\ sinkCalls = 1 /\ pc = "sending"

\* C3: whatever a delivery reports, the scheduler stays in its loop: it is
\* waiting or sending, never ended, and its next step is possible.
C3_LoopSurvivesDelivery ==
    (~testMode /\ ticker) =>
        /\ pc \in {"wait", "sending"}
        /\ pc = "sending" => ENABLED SendReturn
        /\ (pc = "wait" /\ tickPending = 0) => ENABLED TimerFire
        /\ (pc = "wait" /\ tickPending = 1 /\ consumed < MaxTicks) => ENABLED TickCycle

C3_Witness ==
    /\ ~testMode /\ pc = "wait" /\ attempts = 1 /\ outcome.kind = "NetworkError"
    /\ ~TickQualifies /\ cycles = 2

\* The response body holds a JSON object whose errcode is a number.
NumericErrcode(b) ==
    b.kind = "object" /\ "errcode" \in DOMAIN b.fields /\ b.fields["errcode"].type = "number"

\* C4: the report of a finished call is NetworkError on a transport failure,
\* else HttpError with status and raw body on a status other than 200, else
\* ApplicationError with the raw body on a numeric errcode other than 0,
\* else Success on errcode 0.
C4_OutcomePriority ==
    attempts > 0 =>
        /\ outcome.kind \in {"NetworkError", "HttpError", "ApplicationError", "Success"}
        /\ resp.err => outcome.kind = "NetworkError"
        /\ (~resp.err /\ resp.status # StatusOK) =>
              outcome = Outcome("HttpError", resp.status, resp.body.raw)
        /\ (~resp.err /\ resp.status = StatusOK /\ NumericErrcode(resp.body)
              /\ resp.body.fields["errcode"].num # 0) =>
              outcome = Outcome("ApplicationError", 0, resp.body.raw)
        /\ (~resp.err /\ resp.status = StatusOK /\ NumericErrcode(resp.body)
              /\ resp.body.fields["errcode"].num = 0) =>
              outcome.kind = "Success"

C4_Witness ==
    /\ outcome = Outcome("HttpError", 500, "{errcode:0}")
    /\ resp.status = 500 /\ NumericErrcode(resp.body)

\* C5: a 200 response whose body is no JSON object, has no errcode, or has
\* an errcode that is not a number is reported as ApplicationError with the
\* raw body, and the call returns to its caller.
C5_MalformedIsApplicationError ==
    (attempts > 0 /\ ~resp.err /\ resp.status = StatusOK /\ ~NumericErrcode(resp.body)) =>
        /\ outcome = Outcome("ApplicationError", 0, resp.body.raw)
        /\ pc \in {"wait", "sending", "exit"}

C5_Witness ==
    /\ resp.status = StatusOK /\ resp.body.raw = "{errcode:'0'}"
    /\ outcome.kind = "ApplicationError" /\ pc = "wait"

\* C6: the scheduler has made as many sink calls as it has seen qualifying
\* ticks: no tick is suppressed because an earlier one fired.
C6_OneCallPerQualifyingTick == ~testMode => sinkCalls = qualifying

C6_Witness ==
    /\ ~testMode /\ sinkCalls = 2 /\ cycles = 2
    /\ Len(cfg.SendDays) = 1 /\ Len(cfg.SendTimes) = 1

\* C7: test mode makes one delivery with the loaded target and message,
\* reads no clock, creates no ticker and runs no cycle, then exits; the
\* scheduler sends only while the tick it observed qualifies.
C7_TestModeSendsOnce ==
    /\ testMode =>
          /\ ~ticker /\ tickPending = 0 /\ cycles = 0 /\ consumed = 0 /\ now = NoTime
          /\ pc \notin {"loaded", "wait"}
          /\ pc = "sending" => sinkCalls = 1 /\ attempts = 0
          /\ pc = "exit" => sinkCalls = 1 /\ attempts = 1
          /\ pc \in {"sending", "exit"} =>
                validConfig(cfg) /\ request = Request(cfg.Webhook, cfg.Message)
    /\ ~testMode =>
          /\ caller # "testSend" /\ pc # "exit"
          /\ pc = "sending" => TickQualifies

C7_Witness ==
    /\ testMode /\ pc = "exit" /\ attempts = 1 /\ outcome.kind = "Success"
    /\ cfg.SendDays = <<1>> /\ cfg.SendTimes = <<T0900>>

\* The canonical two-digit form of every minute of the day.
CanonicalTimes == {Format(h, m) : h \in 0..23, m \in 0..59}

\* C8: a schedule returned by a loader has days and times that are not
\* empty, days in 0..6 and every time in the canonical form HH:MM.
C8_ValidatedTimesCanonical ==
    pc \in {"loaded", "wait", "sending", "exit"} =>
        /\ Len(cfg.SendDays) > 0 /\ Len(cfg.SendTimes) > 0
        /\ \A i \in 1..Len(cfg.SendDays) : cfg.SendDays[i] \in 0..MaxWeekday
        /\ \A i \in 1..Len(cfg.SendTimes) : cfg.SendTimes[i] \in CanonicalTimes

\* C9: a sink call makes one transport attempt, at most one delivery is
\* in flight, and no cycle starts while a delivery has not returned.
C9_OneAttemptNoOverlap ==
    /\ [](/\ inFlight \in {0, 1}
          /\ inFlight = 1 <=> pc = "sending"
          /\ attempts + inFlight = sinkCalls)
    /\ [][cycles' # cycles => inFlight = 0 /\ pc # "sending"]_vars

C9_Witness ==
    /\ pc = "sending" /\ caller = "checkAndSend" /\ inFlight = 1
    /\ tickPending = 1 /\ attempts = 1 /\ sinkCalls = 2

\* The days and times of one typed line, and whether all of it is valid.
LineDays(line) == parseDayParts(Split(TrimSpace(line)), <<>>)
LineTimes(line) == parseTimeParts(Split(TrimSpace(line)), <<>>)
Last(s) == s[Len(s)]

\* C10: the days and the times the prompt returns are those of the last
\* line read at that prompt, and that line is valid as a whole.
C10_LastLineWins ==
    (pc \in {"loaded", "sending"} /\ entered.daysRead # <<>>) =>
        /\ LineDays(Last(entered.daysRead)).valid
        /\ cfg.SendDays = LineDays(Last(entered.daysRead)).list
        /\ LineTimes(Last(entered.timesRead)).valid
        /\ cfg.SendTimes = LineTimes(Last(entered.timesRead)).list

====
